---- MODULE Spec2Model ----
(***************************************************************************)
(* Model of update_scores.py: the fetch -> filter -> write -> publish      *)
(* pipeline of run(), one action per statement group, with the credential  *)
(* file, the upstream API, the clock and git as the environment.           *)
(***************************************************************************)
EXTENDS Integers, Sequences, FiniteSets, TLC

\* ------------------------------------------------------------------ bounds
MaxClock == 1      \* the clock (seconds) ranges over 0..MaxClock
MaxRuns == 2       \* number of invocations of run()
MaxCommits == 2    \* longest local history explored
MaxMatches == 1    \* longest upstream matches array
MaxPayload == 2    \* longest matches array of the fetch/filter specification

\* --------------------------------------------------------------- constants
LEAGUES == {"PL", "PD", "CL", "BL1", "SA"}

HTTP_OK == 200

EXIT_FAILURE == 1

EXIT_SUCCESS == 0

NoExit == -1       \* the process has not exited

AmendMessage == "Live Score Update"

InitialMessage == "Initial Commit"

\* ------------------------------------------------------------- environment
\* secrets.json: absent, not JSON, JSON without a usable api_key, or good
SecretsStates == {"missing", "invalid", "nokey", "ok"}

StatusCodes == {200, 201, 429}

\* elements of the upstream matches array; comp = FALSE lacks the
\* competition code, full = FALSE lacks the team keys
MatchPool ==
  { [code |-> "PL", name |-> "Premier League", home |-> "A", comp |-> TRUE, full |-> TRUE],
    [code |-> "XX", name |-> "Other Cup",      home |-> "B", comp |-> TRUE, full |-> TRUE],
    [code |-> "PL", name |-> "Premier League", home |-> "A", comp |-> TRUE, full |-> FALSE] }

\* the wider choice of elements of the fetch/filter specification
PayloadPool ==
  MatchPool \cup
  { [code |-> "SA", name |-> "Serie A",   home |-> "C", comp |-> TRUE,  full |-> TRUE],
    [code |-> "XX", name |-> "Other Cup", home |-> "B", comp |-> TRUE,  full |-> FALSE],
    [code |-> "",   name |-> "",          home |-> "D", comp |-> FALSE, full |-> TRUE] }

RECURSIVE SeqsUpTo(_, _)
SeqsUpTo(S, n) ==
  IF n = 0 THEN {<<>>}
  ELSE LET shorter == SeqsUpTo(S, n - 1)
       IN shorter \cup {Append(s, x) : s \in {t \in shorter : Len(t) = n - 1}, x \in S}

Bodies == SeqsUpTo(MatchPool, MaxMatches)

\* what requests.get yields: an exception, or a response with a status and
\* a body that is JSON (with its matches array) or not
Responses ==
  { [kind |-> "exception", status |-> 0, json |-> FALSE, matches |-> <<>>] }
  \cup { [kind |-> "http", status |-> s, json |-> FALSE, matches |-> <<>>] : s \in StatusCodes }
  \cup { [kind |-> "http", status |-> s, json |-> TRUE, matches |-> b] :
           s \in StatusCodes, b \in Bodies }

Payloads == SeqsUpTo(PayloadPool, MaxPayload)

PayloadResponses ==
  { [kind |-> "http", status |-> s, json |-> TRUE, matches |-> b] :
      s \in StatusCodes, b \in Payloads }

NoResponse == [kind |-> "none", status |-> 0, json |-> FALSE, matches |-> <<>>]

\* data/matches.json does not exist
NoFile == [last_updated |-> -1, matches |-> <<>>]

\* a repository cloned with one earlier commit that has no snapshot
SeedCommit == [msg |-> "seed", snap |-> NoFile, adate |-> 0, cdate |-> 0]

VARIABLES
  pc,          \* position of run(): idle, load, fetch, ..., done
  runs,        \* invocations so far
  clock,       \* datetime.now(), in seconds
  secrets,     \* state of secrets.json
  otherDirty,  \* the working tree has untracked or modified files besides the snapshot
  resp,        \* response of requests.get in this run
  file,        \* content of data/matches.json
  index,       \* staged content of data/matches.json
  local,       \* commits of the local branch, oldest first
  remote,      \* commits of origin/main, oldest first
  trace,       \* steps executed in this run, in order
  exitCode,    \* exit status of the process
  wrote,       \* this run wrote the snapshot
  startLocal,  \* local at the start of this run
  startRemote, \* remote at the start of this run
  startFile,   \* file at the start of this run
  prevWrote,   \* the previous run wrote the snapshot
  prevResp,    \* response of the previous run
  prevFile,    \* file at the end of the previous run
  pendingFail  \* an earlier run wrote the snapshot and a git command failed since

vars == <<pc, runs, clock, secrets, otherDirty, resp, file, index, local, remote,
          trace, exitCode, wrote, startLocal, startRemote, startFile,
          prevWrote, prevResp, prevFile, pendingFail>>

envVars == <<clock, secrets, otherDirty>>
gitVars == <<index, local, remote>>
startVars == <<runs, startLocal, startRemote, startFile, prevWrote, prevResp, prevFile, pendingFail>>

\* ------------------------------------------------------------ pure helpers
\* load_api_key without the except clauses' None
load_api_key_NoCheck(s) == "key"

load_api_key(s) == IF s = "ok" THEN "key" ELSE "None"

Project(m) == [league |-> m.name, home |-> m.home]

\* the loop putting each kept match in front of the earlier ones
RECURSIVE FilterMatches_Reversed(_)
FilterMatches_Reversed(ms) ==
  IF ms = <<>> THEN [err |-> FALSE, out |-> <<>>]
  ELSE LET m == Head(ms)
           rest == FilterMatches_Reversed(Tail(ms))
       IN IF ~m.comp
          THEN [err |-> TRUE, out |-> <<>>]
          ELSE IF m.code \in LEAGUES
               THEN IF ~m.full \/ rest.err
                    THEN [err |-> TRUE, out |-> <<>>]
                    ELSE [err |-> FALSE, out |-> rest.out \o <<Project(m)>>]
               ELSE rest

\* the loop skipping an element that lacks a key instead of raising
RECURSIVE FilterMatches_SkipBad(_)
FilterMatches_SkipBad(ms) ==
  IF ms = <<>> THEN [err |-> FALSE, out |-> <<>>]
  ELSE LET m == Head(ms)
           rest == FilterMatches_SkipBad(Tail(ms))
       IN IF m.comp /\ m.full /\ m.code \in LEAGUES
          THEN [err |-> FALSE, out |-> <<Project(m)>> \o rest.out]
          ELSE rest

\* lines 50-61: err = a KeyError was raised, out = matches_out
RECURSIVE FilterMatches(_)
FilterMatches(ms) ==
  IF ms = <<>> THEN [err |-> FALSE, out |-> <<>>]
  ELSE LET m == Head(ms)
           rest == FilterMatches(Tail(ms))
       IN IF ~m.comp
          THEN [err |-> TRUE, out |-> <<>>]
          ELSE IF m.code \in LEAGUES
               THEN IF ~m.full \/ rest.err
                    THEN [err |-> TRUE, out |-> <<>>]
                    ELSE [err |-> FALSE, out |-> <<Project(m)>> \o rest.out]
               ELSE rest

\* any response taken as a success
IsSuccess_Any(r) == TRUE

\* any status of the success class taken as a success
IsSuccess_Class(r) == r.status \in 200..299

IsSuccess(r) == r.status = HTTP_OK

\* lines 45-64: what the fetch block does with a response
FetchOutcome(r) ==
  IF r.kind = "exception" THEN "raise"
  ELSE IF IsSuccess(r)
       THEN IF ~r.json \/ FilterMatches(r.matches).err THEN "raise" ELSE "write"
       ELSE "return"

matches_out(r) == FilterMatches(r.matches).out

\* the top-level guard exiting with a failure status
ExitAfterExcept_Fail == EXIT_FAILURE

\* lines 117-118: the top-level guard prints and run() returns normally
ExitAfterExcept == EXIT_SUCCESS

Step(name, ok) == [step |-> name, ok |-> ok]

HeadSnap(hist) == IF hist = <<>> THEN NoFile ELSE hist[Len(hist)].snap

\* datetime.now(): the time that has passed is not the program's choice
Now == clock..MaxClock

\* git status --porcelain prints something
PorcelainNonEmpty(idx, hist, dirty) == idx # HeadSnap(hist) \/ dirty

\* a commit without --amend: the tip is kept and a commit is added
AmendTip_Append(hist, idx, now) ==
  Append(hist, [msg |-> AmendMessage, snap |-> idx, adate |-> now, cdate |-> now])

\* an amend that rewrites the message only and leaves the staged file out
AmendTip_KeepTree(hist, idx, now) ==
  [hist EXCEPT ![Len(hist)] =
     [msg |-> AmendMessage, snap |-> hist[Len(hist)].snap,
      adate |-> hist[Len(hist)].adate, cdate |-> now]]

\* git commit --amend -m "Live Score Update" --allow-empty
AmendTip(hist, idx, now) ==
  [hist EXCEPT ![Len(hist)] =
     [msg |-> AmendMessage, snap |-> idx, adate |-> hist[Len(hist)].adate, cdate |-> now]]

\* the first commit made with the update label
NewCommit_UpdateLabel(hist, idx, now) ==
  Append(hist, [msg |-> AmendMessage, snap |-> idx, adate |-> now, cdate |-> now])

\* git commit -m "Initial Commit"
NewCommit(hist, idx, now) ==
  Append(hist, [msg |-> InitialMessage, snap |-> idx, adate |-> now, cdate |-> now])

IsPrefix(a, b) == Len(a) <= Len(b) /\ SubSeq(b, 1, Len(a)) = a

\* ---------------------------------------------------------------- initial
Init ==
  /\ pc = "idle"
  /\ runs = 0
  /\ clock = 0
  /\ secrets = "ok"
  /\ otherDirty = FALSE
  /\ resp = NoResponse
  /\ file = NoFile
  /\ index = NoFile
  /\ local \in {<<>>, <<SeedCommit>>}
  /\ remote = local
  /\ trace = <<>>
  /\ exitCode = NoExit
  /\ wrote = FALSE
  /\ startLocal = local
  /\ startRemote = remote
  /\ startFile = file
  /\ prevWrote = FALSE
  /\ prevResp = NoResponse
  /\ prevFile = NoFile
  /\ pendingFail = FALSE

\* ------------------------------------------------------------- environment
GitSteps == {"add", "status", "commit-amend", "push-f", "commit", "push-u"}

\* a git command that the run depends on failed
GitFailed(tr) == \E i \in 1..Len(tr) : tr[i].step \in GitSteps /\ ~tr[i].ok

Executed(tr, name) == \E i \in 1..Len(tr) : tr[i].step = name

Succeeded(tr, name) == \E i \in 1..Len(tr) : tr[i].step = name /\ tr[i].ok

\* the scheduler starts the script
StartRun ==
  /\ pc \in {"idle", "done"}
  /\ runs < MaxRuns
  /\ runs' = runs + 1
  /\ pc' = "load"
  /\ secrets' \in SecretsStates
  /\ otherDirty' \in BOOLEAN
  /\ trace' = <<>>
  /\ exitCode' = NoExit
  /\ wrote' = FALSE
  /\ startLocal' = local
  /\ startRemote' = remote
  /\ startFile' = file
  /\ prevWrote' = wrote
  /\ prevResp' = resp
  /\ prevFile' = file
  /\ pendingFail' = IF wrote /\ GitFailed(trace) THEN TRUE
                    ELSE IF wrote THEN FALSE ELSE pendingFail
  /\ resp' = NoResponse
  /\ UNCHANGED <<clock, file, index, local, remote>>

\* --------------------------------------------------------------- run()
\* lines 31-34
LoadCreds ==
  /\ pc = "load"
  /\ trace' = Append(trace, Step("load", load_api_key(secrets) # "None"))
  /\ IF load_api_key(secrets) = "None"
     THEN pc' = "done" /\ exitCode' = EXIT_FAILURE
     ELSE pc' = "fetch" /\ UNCHANGED exitCode
  /\ UNCHANGED <<envVars, gitVars, startVars, resp, file, wrote>>

\* lines 44-64 (and 117-118 when the block raises)
FetchFrom(upstream) ==
  /\ pc = "fetch"
  /\ \E r \in upstream :
       /\ resp' = r
       /\ trace' = Append(trace, Step("http", FetchOutcome(r) = "write"))
       /\ IF FetchOutcome(r) = "write"
          THEN pc' = "write" /\ UNCHANGED exitCode
          ELSE /\ pc' = "done"
               /\ exitCode' = IF FetchOutcome(r) = "raise" THEN ExitAfterExcept
                                                            ELSE EXIT_SUCCESS
  /\ UNCHANGED <<envVars, gitVars, startVars, file, wrote>>

Fetch == FetchFrom(Responses)

\* the same request answered with one of the wider payloads
FetchPayload == FetchFrom(PayloadResponses)

\* lines 66-79
WriteSnapshot ==
  /\ pc = "write"
  /\ \E now \in Now : clock' = now
  /\ file' = [last_updated |-> clock', matches |-> matches_out(resp)]
  /\ wrote' = TRUE
  /\ trace' = Append(trace, Step("write", TRUE))
  /\ pc' = "config"
  /\ UNCHANGED <<secrets, otherDirty, gitVars, startVars, resp, exitCode>>

\* lines 86-87, check=False: the results are ignored
GitConfig ==
  /\ pc = "config"
  /\ trace' = trace \o <<Step("config", TRUE), Step("config", TRUE)>>
  /\ pc' = "add"
  /\ UNCHANGED <<envVars, gitVars, startVars, resp, file, wrote, exitCode>>

\* line 90, check=True
GitAdd ==
  /\ pc = "add"
  /\ \E ok \in BOOLEAN :
       /\ trace' = Append(trace, Step("add", ok))
       /\ IF ok
          THEN index' = file /\ pc' = "status" /\ UNCHANGED exitCode
          ELSE UNCHANGED index /\ pc' = "done" /\ exitCode' = ExitAfterExcept
  /\ UNCHANGED <<envVars, local, remote, startVars, resp, file, wrote>>

\* the diff-check without its early return
AfterStatus_NoReturn(nonEmpty) == "revparse"

\* where run() goes after the status query printed (or not) something
AfterStatus(nonEmpty) == IF nonEmpty THEN "revparse" ELSE "done"

\* lines 93-97, no check: a failed status prints nothing on stdout
GitStatus ==
  /\ pc = "status"
  /\ \E ok \in BOOLEAN :
       LET nonEmpty == ok /\ PorcelainNonEmpty(index, local, otherDirty)
       IN /\ trace' = trace \o <<Step("status", ok), Step("changes", nonEmpty)>>
          /\ pc' = AfterStatus(nonEmpty)
          /\ exitCode' = IF AfterStatus(nonEmpty) = "done" THEN EXIT_SUCCESS ELSE exitCode
  /\ UNCHANGED <<envVars, gitVars, startVars, resp, file, wrote>>

\* line 104: check_call raises when there is no HEAD
RevParse ==
  /\ pc = "revparse"
  /\ trace' = Append(trace, Step("rev-parse", local # <<>>))
  /\ pc' = IF local # <<>> THEN "amend" ELSE "commit"
  /\ UNCHANGED <<envVars, gitVars, startVars, resp, file, wrote, exitCode>>

\* where run() goes when a command of the try block (lines 104-108) raised
OnAmendPathError == "commit"

\* line 107, check=True
Amend ==
  /\ pc = "amend"
  /\ \E ok \in BOOLEAN, now \in Now :
       /\ trace' = Append(trace, Step("commit-amend", ok))
       /\ clock' = now
       /\ IF ok
          THEN local' = AmendTip(local, index, now) /\ pc' = "forcepush"
          ELSE UNCHANGED local /\ pc' = OnAmendPathError
  /\ UNCHANGED <<secrets, otherDirty, index, remote, startVars, resp, file, wrote, exitCode>>

\* lines 108-109, check=True
ForcePush ==
  /\ pc = "forcepush"
  /\ \E ok \in BOOLEAN :
       /\ trace' = Append(trace, Step("push-f", ok))
       /\ IF ok
          THEN remote' = local /\ pc' = "done" /\ exitCode' = EXIT_SUCCESS
          ELSE UNCHANGED remote /\ pc' = OnAmendPathError /\ UNCHANGED exitCode
  /\ UNCHANGED <<envVars, index, local, startVars, resp, file, wrote>>

\* line 113, check=True: git refuses a commit with nothing staged
Commit ==
  /\ pc = "commit"
  /\ \E ok \in IF index # HeadSnap(local) /\ Len(local) < MaxCommits
               THEN BOOLEAN ELSE {FALSE}, now \in Now :
       /\ trace' = Append(trace, Step("commit", ok))
       /\ clock' = now
       /\ IF ok
          THEN local' = NewCommit(local, index, now) /\ pc' = "push" /\ UNCHANGED exitCode
          ELSE UNCHANGED local /\ pc' = "done" /\ exitCode' = ExitAfterExcept
  /\ UNCHANGED <<secrets, otherDirty, index, remote, startVars, resp, file, wrote>>

\* lines 114-115, check=True: a plain push is rejected unless it fast-forwards
Push ==
  /\ pc = "push"
  /\ \E ok \in IF IsPrefix(remote, local) THEN BOOLEAN ELSE {FALSE} :
       /\ trace' = Append(trace, Step("push-u", ok))
       /\ IF ok
          THEN remote' = local /\ exitCode' = EXIT_SUCCESS
          ELSE UNCHANGED remote /\ exitCode' = ExitAfterExcept
  /\ pc' = "done"
  /\ UNCHANGED <<envVars, index, local, startVars, resp, file, wrote>>

Next ==
  \/ StartRun
  \/ LoadCreds
  \/ Fetch
  \/ WriteSnapshot
  \/ GitConfig
  \/ GitAdd
  \/ GitStatus
  \/ RevParse
  \/ Amend
  \/ ForcePush
  \/ Commit
  \/ Push

Spec == Init /\ [][Next]_vars

\* the fetch/filter/write part of one run, over the wider payloads: the
\* state after the credential was loaded, then lines 44-79
InitPayload ==
  /\ pc = "fetch"
  /\ runs = 1
  /\ clock = 0
  /\ secrets = "ok"
  /\ otherDirty = FALSE
  /\ resp = NoResponse
  /\ file \in {NoFile, [last_updated |-> 0, matches |-> <<>>]}
  /\ index = file
  /\ local = <<[SeedCommit EXCEPT !.snap = file]>>
  /\ remote = local
  /\ trace = <<Step("load", TRUE)>>
  /\ exitCode = NoExit
  /\ wrote = FALSE
  /\ startLocal = local
  /\ startRemote = remote
  /\ startFile = file
  /\ prevWrote = FALSE
  /\ prevResp = NoResponse
  /\ prevFile = NoFile
  /\ pendingFail = FALSE

NextPayload ==
  \/ FetchPayload
  \/ WriteSnapshot

SpecPayload == InitPayload /\ [][NextPayload]_vars

TypeOK ==
  /\ pc \in {"idle", "load", "fetch", "write", "config", "add", "status",
             "revparse", "amend", "forcepush", "commit", "push", "done"}
  /\ exitCode \in {NoExit, EXIT_SUCCESS, EXIT_FAILURE}
  /\ Len(local) <= MaxCommits

\* ------------------------------------------------------------ properties
AtEnd == pc = "done"

CommitSteps == {"commit-amend", "commit"}

PushSteps == {"push-f", "push-u"}

\* git commands other than the HEAD probe, whose non-zero result is an answer
NoGitStep(tr) == \A i \in 1..Len(tr) : tr[i].step \notin GitSteps \cup {"config", "rev-parse", "changes"}

NoCommitNoPush(tr) == \A i \in 1..Len(tr) : tr[i].step \notin CommitSteps \cup PushSteps

ChangesReported(tr) == Succeeded(tr, "changes")

NoChangesReported(tr) == \E i \in 1..Len(tr) : tr[i].step = "changes" /\ ~tr[i].ok

Count(tr, names) == Cardinality({i \in 1..Len(tr) : tr[i].step \in names})

SuccessClass(code) == code \in 200..299

\* C1: a run that starts with n >= 1 commits ends with exactly n commits,
\* locally and on the remote, and a run that starts with none ends with at
\* most one, whatever git commands fail.
C1_HistoryNeverGrows ==
  AtEnd =>
    /\ (Len(startLocal) >= 1 => Len(local) = Len(startLocal))
    /\ (Len(startLocal) = 0 => Len(local) <= 1)
    /\ (Len(startRemote) >= 1 => Len(remote) = Len(startRemote))
    /\ (Len(startRemote) = 0 => Len(remote) <= 1)

\* C2: a run that starts with a commit, sees changes in the diff-check and
\* has every git command succeed ends with as many commits as before, a tip
\* with the message "Live Score Update" holding the snapshot just written,
\* published to the remote, and its only push is the force push.
C2_AmendPath ==
  (AtEnd /\ startLocal # <<>> /\ ChangesReported(trace) /\ ~GitFailed(trace)) =>
    /\ Len(local) = Len(startLocal)
    /\ local[Len(local)].msg = AmendMessage
    /\ wrote /\ local[Len(local)].snap = file
    /\ remote = local
    /\ Succeeded(trace, "push-f")
    /\ Count(trace, PushSteps) = 1

C2_Witness ==
  /\ AtEnd /\ startLocal # <<>> /\ ChangesReported(trace) /\ ~GitFailed(trace)
  /\ Succeeded(trace, "commit-amend") /\ Succeeded(trace, "push-f")
  /\ file # startFile

\* C3: a run that starts without a commit, sees changes in the diff-check
\* and has every git command succeed creates exactly one commit, "Initial
\* Commit", and executes exactly one push, the plain push -u; no amend and no
\* force push is executed.
C3_InitialPath ==
  (AtEnd /\ startLocal = <<>> /\ ChangesReported(trace) /\ ~GitFailed(trace)) =>
    /\ Len(local) = 1
    /\ local[1].msg = InitialMessage
    /\ local[1].snap = file
    /\ Count(trace, CommitSteps) = 1 /\ Succeeded(trace, "commit")
    /\ Count(trace, PushSteps) = 1 /\ Succeeded(trace, "push-u")
    /\ remote = local
    /\ ~Executed(trace, "commit-amend") /\ ~Executed(trace, "push-f")

C3_Witness ==
  /\ AtEnd /\ startLocal = <<>> /\ ChangesReported(trace) /\ ~GitFailed(trace)
  /\ Succeeded(trace, "commit") /\ Succeeded(trace, "push-u")
  /\ Len(remote) = 1

\* C4: when two runs in succession get the same upstream response, the
\* second leaves the snapshot file as the first wrote it and executes no
\* commit and no push (stated for the case most favourable to the claim: no
\* git command failed in either run and nothing else in the working tree is
\* dirty).
C4_Idempotent ==
  (/\ AtEnd /\ prevWrote /\ wrote /\ resp = prevResp
   /\ ~pendingFail /\ ~GitFailed(trace) /\ ~otherDirty) =>
    /\ file = prevFile
    /\ NoCommitNoPush(trace)

\* C5: after a run that wrote the snapshot and had a git command fail, a
\* run whose fetch succeeds and whose git commands all succeed ends with the
\* remote tip holding the snapshot that is on disk.
C5_RecoversAfterPublishFailure ==
  (AtEnd /\ pendingFail /\ wrote /\ ~GitFailed(trace)) =>
    /\ remote # <<>>
    /\ HeadSnap(remote) = file

\* C6: when the HTTP status is outside the success class, the snapshot file
\* is as it was before the run and no git command is executed.
C6_UpstreamError ==
  (resp.kind = "http" /\ ~SuccessClass(resp.status)) =>
    /\ AtEnd
    /\ file = startFile /\ ~wrote
    /\ NoGitStep(trace)
    /\ local = startLocal /\ remote = startRemote

C6_Witness ==
  /\ resp.kind = "http" /\ resp.status = 429 /\ resp.json
  /\ AtEnd /\ startFile # NoFile

\* C7: when secrets.json is missing or is not JSON, the run exits non-zero
\* before any HTTP request, without a snapshot write or a git command.
C7_ConfigurationError ==
  (secrets \in {"missing", "invalid"} /\ pc # "load") =>
    /\ AtEnd
    /\ exitCode # EXIT_SUCCESS /\ exitCode # NoExit
    /\ ~Executed(trace, "http") /\ resp = NoResponse
    /\ file = startFile /\ ~wrote
    /\ NoGitStep(trace)
    /\ local = startLocal /\ remote = startRemote

C7_Witness ==
  /\ secrets \in {"missing", "invalid"} /\ AtEnd
  /\ exitCode = EXIT_FAILURE /\ Executed(trace, "load")

\* C8: a finished run has a non-zero exit status exactly when the credential
\* could not be loaded; an upstream error, a malformed payload, a network
\* exception and a failed git command (fallback commit and push included)
\* all end with status 0.
C8_ExitStatus ==
  AtEnd =>
    /\ exitCode \in {EXIT_SUCCESS, EXIT_FAILURE}
    /\ (exitCode # EXIT_SUCCESS <=> secrets # "ok")

C8_Witness ==
  /\ AtEnd /\ exitCode = EXIT_SUCCESS
  /\ Executed(trace, "commit-amend")
  /\ \E i \in 1..Len(trace) : trace[i].step \in {"commit", "push-u"} /\ ~trace[i].ok

\* C9: when the stage, a commit or a push fails, no further git command is
\* executed in that run: a failed one is the last step of the run.
C9_NoCommandAfterFailure ==
  \A i \in 1..Len(trace) :
    (trace[i].step \in {"add"} \cup CommitSteps \cup PushSteps /\ ~trace[i].ok)
      => i = Len(trace)

\* C10: when the status query reports no differences the run ends there, with
\* no HEAD probe, no commit and no push, and both histories unchanged.
C10_DiffCheckGuard ==
  NoChangesReported(trace) =>
    /\ AtEnd
    /\ ~Executed(trace, "rev-parse")
    /\ NoCommitNoPush(trace)
    /\ local = startLocal /\ remote = startRemote

C10_Witness ==
  /\ NoChangesReported(trace) /\ Succeeded(trace, "status")
  /\ AtEnd /\ startLocal # <<>> /\ wrote

\* positions of the matches of a configured competition
InLeague(ms) == {i \in 1..Len(ms) : ms[i].code \in LEAGUES}

\* the k-th smallest position of I
Nth(I, k) == CHOOSE i \in I : Cardinality({j \in I : j <= i}) = k

WellFormed(ms) == \A i \in 1..Len(ms) : ms[i].comp /\ ms[i].full

\* C11: for a payload with a well-formed matches array, the records written
\* are exactly the matches whose competition code is in LEAGUES, as many as
\* there are and in the upstream order.
C11_StableFilter ==
  (wrote /\ WellFormed(resp.matches)) =>
    LET ms == resp.matches
        I == InLeague(ms)
    IN /\ Len(file.matches) = Cardinality(I)
       /\ \A k \in 1..Len(file.matches) :
            file.matches[k] = [league |-> ms[Nth(I, k)].name, home |-> ms[Nth(I, k)].home]

C11_Witness ==
  /\ wrote /\ WellFormed(resp.matches)
  /\ Len(resp.matches) = 2
  /\ resp.matches[1].code = "SA" /\ resp.matches[2].code = "PL"
  /\ Len(file.matches) = 2

RunFailedInFetch ==
  /\ AtEnd
  /\ file = startFile /\ ~wrote
  /\ NoGitStep(trace)
  /\ exitCode = EXIT_SUCCESS
  /\ trace[Len(trace)] = Step("http", FALSE)

ProcessedBody == resp.kind = "http" /\ resp.status = HTTP_OK /\ resp.json

\* C15 as stated: when any element of the matches array lacks a required
\* key, the whole run fails: snapshot unchanged, no git command, exit 0.
C15_AnyMissingKeyFails ==
  (ProcessedBody /\ ~WellFormed(resp.matches)) => RunFailedInFetch

\* an element without the competition code, or one of a configured
\* competition without another required key
LacksReadKey(ms) ==
  \E i \in 1..Len(ms) : ~ms[i].comp \/ (ms[i].code \in LEAGUES /\ ~ms[i].full)

\* C15 amended: the run fails when an element lacks the competition code or
\* an element of a configured competition lacks another required key; an
\* element of another competition that lacks other keys is filtered out
\* like any other and the run goes on to write the snapshot.
C15_MissingReadKeyFails ==
  ProcessedBody =>
    IF LacksReadKey(resp.matches)
    THEN RunFailedInFetch
    ELSE ~AtEnd /\ (wrote \/ pc = "write")

C15_Witness ==
  /\ ProcessedBody /\ RunFailedInFetch
  /\ Len(resp.matches) = 2
  /\ resp.matches[1].comp /\ resp.matches[1].full /\ resp.matches[1].code \in LEAGUES
  /\ resp.matches[2].code \in LEAGUES /\ ~resp.matches[2].full
  /\ startFile # NoFile

\* C12: the normal commit "Initial Commit" and the push -u are executed only
\* after the HEAD probe reported no commit, the amend and the force push only
\* after it reported one, and a run never enters both paths.
C12_PathByProbe ==
  /\ (Executed(trace, "commit") \/ Executed(trace, "push-u"))
       => \E i \in 1..Len(trace) : trace[i].step = "rev-parse" /\ ~trace[i].ok
  /\ (Executed(trace, "commit-amend") \/ Executed(trace, "push-f"))
       => Succeeded(trace, "rev-parse")
  /\ ~(Executed(trace, "commit-amend") /\ Executed(trace, "commit"))

\* place of a step in the order credential load, HTTP request, snapshot
\* write, stage, status query, HEAD probe, commit, push
Rank(name) ==
  CASE name = "load" -> 1
    [] name = "http" -> 2
    [] name = "write" -> 3
    [] name = "config" -> 4
    [] name = "add" -> 5
    [] name \in {"status", "changes"} -> 6
    [] name = "rev-parse" -> 7
    [] name \in CommitSteps -> 8
    [] name \in PushSteps -> 9

\* C13: in a run the steps occur only in the order load, HTTP request, write,
\* stage, status, HEAD probe, commit, push; there is at most one HTTP request,
\* one write, one commit command and one push command; no git command comes
\* before the write, and a push only after a commit command that succeeded.
C13_ForwardAtMostOnce ==
  /\ \A i, j \in 1..Len(trace) : i < j => Rank(trace[i].step) <= Rank(trace[j].step)
  /\ Count(trace, {"load"}) <= 1
  /\ Count(trace, {"http"}) <= 1
  /\ Count(trace, {"write"}) <= 1
  /\ Count(trace, {"add"}) <= 1
  /\ Count(trace, {"status"}) <= 1
  /\ Count(trace, {"rev-parse"}) <= 1
  /\ Count(trace, CommitSteps) <= 1
  /\ Count(trace, PushSteps) <= 1
  /\ \A j \in 1..Len(trace) :
       trace[j].step \in PushSteps =>
         \E i \in 1..(j - 1) : trace[i].step \in CommitSteps /\ trace[i].ok

\* C14: whenever the amend is executed (stated for an amend that succeeds),
\* the snapshot staged in this run differs from the snapshot of the tip
\* commit the run started with.
C14_AmendImpliesChange ==
  Succeeded(trace, "commit-amend") => index # HeadSnap(startLocal)

\* C16 as stated: every response of the success class with a well-formed
\* body is treated as a successful fetch and the snapshot is written.
C16_SuccessClassWrites ==
  (resp.kind = "http" /\ SuccessClass(resp.status) /\ resp.json /\ WellFormed(resp.matches))
    => (wrote \/ pc = "write")

\* C16 amended: a response with status 200 and a well-formed body is treated
\* as a successful fetch and the snapshot is written; every other status,
\* the other statuses of the success class included, is reported as an
\* upstream failure and the run ends without a write.
C16_Only200Writes ==
  resp.kind = "http" =>
    /\ (resp.status = HTTP_OK /\ resp.json /\ WellFormed(resp.matches))
         => (~AtEnd \/ wrote) /\ (wrote \/ pc = "write") /\ Succeeded(trace, "http")
    /\ resp.status # HTTP_OK
         => /\ AtEnd /\ ~wrote /\ file = startFile
            /\ exitCode = EXIT_SUCCESS
            /\ trace[Len(trace)] = Step("http", FALSE)

C16_Witness ==
  /\ resp.kind = "http" /\ resp.status = HTTP_OK /\ resp.json
  /\ wrote /\ Len(file.matches) = 1 /\ file # startFile
  /\ Executed(trace, "add")

PushSucceeded(tr) == \E i \in 1..Len(tr) : tr[i].step \in PushSteps /\ tr[i].ok

\* C17: at the end of a run in which a push succeeded the remote branch
\* equals the local branch and its tip holds the snapshot written by this
\* run; at the end of a run without a successful push the remote is as it
\* was at the start.
C17_RemoteAgreesAfterPush ==
  AtEnd =>
    IF PushSucceeded(trace)
    THEN /\ remote = local /\ remote # <<>>
         /\ wrote /\ HeadSnap(remote) = file
    ELSE remote = startRemote

C17_Witness ==
  /\ AtEnd /\ Succeeded(trace, "push-f")
  /\ remote # startRemote /\ file # startFile
  /\ HeadSnap(remote) = file
====
